---------------------------- MODULE Spec2Model ----------------------------
(***************************************************************************)
(* Job dispatch and token streaming bridge of the chat_agents module:       *)
(* SimpleChatAgentService.startAgentJob (submit), SimpleChatAgentProcessor  *)
(* .process (the producer run of a BullMQ job), the Redis stream that holds *)
(* the fragments, and the readers created by ChatAgentsController           *)
(* .streamAgent / SimpleChatAgentService.getStream.                         *)
(***************************************************************************)
EXTENDS Integers, Sequences, FiniteSets, TLC

(***************************************************************************)
(* Bounds of the model.                                                     *)
(***************************************************************************)
\* number of concurrent SSE readers
NumReaders == 2
\* number of chunks the engine may yield in one run
MaxFrags == 2
\* number of times the stream key may expire in one behaviour
MaxExpiries == 1
\* maxEmptyPolls of getStream (stream.maxIdleTime * 1000 / 100), scaled down
MaxEmptyPolls == 2
\* conversation ids of generated stream keys: 0..MaxConversationId
MaxConversationId == 11
\* the seconds at which tokens are issued: 0..MaxIat
MaxIat == 1
\* AuthService calls: at most MaxCalls started, over the request slots Calls
MaxCalls == 4

(***************************************************************************)
(* Program constants.                                                       *)
(***************************************************************************)
\* stream.ttl (STREAM_TTL default)
StreamTtl == 600
\* stream.errorTtl (STREAM_ERROR_TTL default)
ErrorTtl == 60
\* bullmq.maxStalledCount (BULLMQ_MAX_STALLED_COUNT default)
MaxStalledCount == 1
\* the value Redis reports for a key without expiry
NoTtl == -1

SUPPORTED_MODELS == {"gpt-4o-mini", "gpt-4o"}
ConversationIds == {1}
JobIds == {"job_1"}
\* the chunks the engine yields for the message "ping", in order
EngineScript == <<"p", "i", "n", "g">>

Readers == 1..NumReaders
\* deliveries of one job: the first one and one per tolerated stall
Runs == 1..(MaxStalledCount + 1)

(***************************************************************************)
(* Stream keys.                                                             *)
(***************************************************************************)
\* RedisStreamUtils.generateStreamKey: `llm:stream:${conversationId}:${model}:${jobId}`
generateStreamKey(conversationId, model, jobId) ==
    <<"llm", "stream", conversationId, model, jobId>>

\* the template string of SimpleChatAgentProcessor.process
ProcessStreamKeyFixedModel(conversationId, model, jobId) ==
    <<"llm", "stream", conversationId, "gpt-4o-mini", jobId>>
ProcessStreamKey(conversationId, model, jobId) ==
    <<"llm", "stream", conversationId, model, jobId>>

Keys == { generateStreamKey(c, m, j) :
            c \in ConversationIds, m \in SUPPORTED_MODELS, j \in JobIds }

(***************************************************************************)
(* Stream keys as text: a string is the sequence of its characters.         *)
(***************************************************************************)
DigitChars == <<"0", "1", "2", "3", "4", "5", "6", "7", "8", "9">>
LowerChars == <<"a", "b", "c", "d", "e", "f", "g", "h", "i", "j", "k", "l", "m",
                "n", "o", "p", "q", "r", "s", "t", "u", "v", "w", "x", "y", "z">>
UpperChars == <<"A", "B", "C", "D", "E", "F", "G", "H", "I", "J", "K", "L", "M",
                "N", "O", "P", "Q", "R", "S", "T", "U", "V", "W", "X", "Y", "Z">>
Range(seq) == { seq[i] : i \in 1..Len(seq) }

\* Number.prototype.toString(radix) of a non-negative integer
RECURSIVE toString(_, _)
toString(n, radix) ==
    LET digits == DigitChars \o LowerChars
    IN IF n < radix THEN <<digits[n + 1]>>
       ELSE Append(toString(n \div radix, radix), digits[(n % radix) + 1])

\* Math.random().toString(36) of the fraction with the given base-36 digits:
\* "0" for the fraction 0, else "0." and the digits
RandomToString36(fraction) ==
    IF fraction = <<>> THEN <<"0">>
    ELSE <<"0", ".">> \o [i \in 1..Len(fraction) |-> (DigitChars \o LowerChars)[fraction[i] + 1]]

\* String.prototype.slice(start, end) for 0 <= start <= end
slice(text, start, end) ==
    LET last == IF end < Len(text) THEN end ELSE Len(text)
    IN IF start >= last THEN <<>> ELSE SubSeq(text, start + 1, last)

\* the values of the enum SUPPORTED_MODELS as text
ModelText ==
    [m \in SUPPORTED_MODELS |->
        IF m = "gpt-4o-mini"
        THEN <<"g", "p", "t", "-", "4", "o", "-", "m", "i", "n", "i">>
        ELSE <<"g", "p", "t", "-", "4", "o">>]

\* RedisStreamUtils.generateJobId:
\* `job_${Date.now()}_${Math.random().toString(36).slice(2, 11)}`
generateJobId(now, fraction) ==
    <<"j", "o", "b", "_">> \o toString(now, 10) \o <<"_">>
        \o slice(RandomToString36(fraction), 2, 11)

\* RedisStreamUtils.generateStreamKey, as text
generateStreamKeyText(conversationId, model, jobId) ==
    <<"l", "l", "m", ":", "s", "t", "r", "e", "a", "m", ":">>
        \o toString(conversationId, 10) \o <<":">> \o ModelText[model] \o <<":">> \o jobId

\* the parts of a text between the occurrences of a separator
RECURSIVE Split(_, _)
Split(text, sep) ==
    IF \A i \in 1..Len(text) : text[i] # sep THEN <<text>>
    ELSE LET at == CHOOSE i \in 1..Len(text) :
                       text[i] = sep /\ \A j \in 1..(i - 1) : text[j] # sep
         IN <<SubSeq(text, 1, at - 1)>> \o Split(SubSeq(text, at + 1, Len(text)), sep)

\* keyPattern /^llm:stream:\d+:[a-zA-Z0-9\-_.]+:[a-zA-Z0-9_]+$/: no class
\* holds ':', so a text matches exactly when ':' cuts it into these five parts
keyPatternTest(text, jobIdClass) ==
    LET parts == Split(text, ":")
        alnum == Range(DigitChars) \cup Range(LowerChars) \cup Range(UpperChars)
    IN /\ Len(parts) = 5
       /\ parts[1] = <<"l", "l", "m">>
       /\ parts[2] = <<"s", "t", "r", "e", "a", "m">>
       /\ parts[3] # <<>> /\ Range(parts[3]) \subseteq Range(DigitChars)
       /\ parts[4] # <<>> /\ Range(parts[4]) \subseteq alnum \cup {"-", "_", "."}
       /\ parts[5] # <<>> /\ Range(parts[5]) \subseteq alnum \cup jobIdClass

\* StreamValidator.validateStreamKey: the StreamErrorType thrown, or "ok"
validateStreamKeyNoUnderscore(streamKey) ==
    IF streamKey = <<>> THEN "INVALID_TYPE"
    ELSE IF ~keyPatternTest(streamKey, {}) THEN "INVALID_TYPE"
    ELSE "ok"
validateStreamKey(streamKey) ==
    IF streamKey = <<>> THEN "INVALID_TYPE"
    ELSE IF ~keyPatternTest(streamKey, {"_"}) THEN "INVALID_TYPE"
    ELSE "ok"

\* no key validated yet
NoKeyReq == [origin |-> "none", streamKey |-> <<>>, verdict |-> ""]

(***************************************************************************)
(* JSON and Redis field encoding.                                           *)
(***************************************************************************)
\* JSON.stringify: the text of a value
JSONstringify(v) == [json |-> v]
\* JSON.parse: the value of a text
JSONparse(s) == s.json

\* the argument list 'data', JSON.stringify(x) of xadd
DataFields(v) == <<"data", JSONstringify(v)>>

\* RedisStreamUtils.parseRedisFields: pairs of the flat field array
parseRedisFields(fields) ==
    [ f \in { fields[i] : i \in { j \in 1..Len(fields) : j % 2 = 1 } } |->
        fields[(CHOOSE i \in 1..Len(fields) :
                    /\ i % 2 = 1
                    /\ fields[i] = f
                    /\ \A j \in (i+1)..Len(fields) : ~(j % 2 = 1 /\ fields[j] = f)) + 1] ]

\* RedisStreamUtils.safeJsonParse
safeJsonParse(data) ==
    IF "data" \in DOMAIN data THEN JSONparse(data["data"]) ELSE data

\* parsedData.metadata?.isComplete
IsCompleteSkip(parsedData) == FALSE
IsComplete(parsedData) ==
    /\ "metadata" \in DOMAIN parsedData
    /\ "isComplete" \in DOMAIN parsedData.metadata
    /\ parsedData.metadata.isComplete

\* a chunk of the engine's message stream
Chunk(content) == [content |-> content]

\* StreamCompletionData of the success path
CompletionData(jobId, now) ==
    [ metadata |-> [isComplete |-> TRUE, completedAt |-> now, jobId |-> jobId],
      type     |-> "completion",
      message  |-> "Stream completed successfully" ]

\* StreamCompletionData of the catch block
ErrorData(jobId, now, errMessage) ==
    [ metadata |-> [isComplete |-> TRUE, completedAt |-> now, jobId |-> jobId,
                    error |-> TRUE],
      type     |-> "error",
      message  |-> IF errMessage = "" THEN "An error occurred during processing"
                   ELSE errMessage ]

(***************************************************************************)
(* Redis commands on a keyspace db: [Keys -> [exists, entries, ttl]].       *)
(***************************************************************************)
NoKey == [exists |-> FALSE, entries |-> <<>>, ttl |-> NoTtl]

\* XADD key * fields: creates the stream when absent (without expiry) and
\* appends an entry under the id the server assigns
XAddTrimmed(db, k, id, fields) ==
    [db EXCEPT ![k] = [exists  |-> TRUE,
                       entries |-> <<[id |-> id, fields |-> fields]>>,
                       ttl     |-> db[k].ttl]]
XAdd(db, k, id, fields) ==
    [db EXCEPT ![k] = [exists  |-> TRUE,
                       entries |-> Append(db[k].entries, [id |-> id, fields |-> fields]),
                       ttl     |-> db[k].ttl]]

\* EXPIRE key seconds: no effect on an absent key; a non-positive time
\* deletes the key
ExpireIgnored(db, k, seconds) == db
ExpireCreates(db, k, seconds) ==
    [db EXCEPT ![k] = [exists |-> TRUE, entries |-> db[k].entries, ttl |-> seconds]]
Expire(db, k, seconds) ==
    IF ~db[k].exists THEN db
    ELSE IF seconds <= 0 THEN [db EXCEPT ![k] = NoKey]
    ELSE [db EXCEPT ![k].ttl = seconds]

\* XLEN key: 0 for an absent key
XLen(db, k) == Len(db[k].entries)

\* TTL key: -2 for an absent key, -1 for a key without expiry
Ttl(db, k) == IF db[k].exists THEN db[k].ttl ELSE -2

\* XREVRANGE key + - COUNT 1: the newest entry, if any
XRevRange1(db, k) ==
    IF Len(db[k].entries) = 0 THEN <<>>
    ELSE <<db[k].entries[Len(db[k].entries)]>>

\* XREAD BLOCK t STREAMS key lastId: the entries with an id above lastId, in
\* stream order
XReadInclusive(db, k, lastId) ==
    SelectSeq(db[k].entries, LAMBDA e : e.id >= lastId)
XRead(db, k, lastId) ==
    SelectSeq(db[k].entries, LAMBDA e : e.id > lastId)

(***************************************************************************)
(* Configuration: the environment, its validation and the stream section.   *)
(***************************************************************************)
\* the values STREAM_TTL and STREAM_ERROR_TTL may have in the environment
\* ("": not set)
EnvValues == {"", "60", "600"}
Envs == [STREAM_TTL : EnvValues, STREAM_ERROR_TTL : EnvValues]

\* parseInt(text, 10) of a decimal numeral
parseInt(text) == CASE text = "60" -> 60 [] text = "600" -> 600

\* validationSchema: STREAM_TTL and STREAM_ERROR_TTL are Joi.number().required(),
\* each on its own
validationSchema(env) == env.STREAM_TTL # "" /\ env.STREAM_ERROR_TTL # ""

\* the stream section of globalConfig
globalConfig(env) ==
    [ttl      |-> parseInt(IF env.STREAM_TTL = "" THEN "600" ELSE env.STREAM_TTL),
     errorTtl |-> parseInt(IF env.STREAM_ERROR_TTL = "" THEN "60"
                           ELSE env.STREAM_ERROR_TTL)]

\* the configurations the application starts with
AcceptedConfigs == { globalConfig(env) : env \in { e \in Envs : validationSchema(e) } }

\* the environment of the deployment: the values globalConfig defaults to
DeployedEnv == [STREAM_TTL |-> "600", STREAM_ERROR_TTL |-> "60"]

(***************************************************************************)
(* Tokens: JWTService and the secrets it is configured with.                *)
(***************************************************************************)
\* the values a token secret may have in the environment ("": not set)
Secrets == {"", "s1", "s2"}
SecretEnvs == [JWT_ACCESS_TOKEN_SECRET : Secrets, JWT_REFRESH_TOKEN_SECRET : Secrets]

\* validationSchema: both secrets are Joi.string().required(), each on its own
secretsValidationSchema(env) ==
    env.JWT_ACCESS_TOKEN_SECRET # "" /\ env.JWT_REFRESH_TOKEN_SECRET # ""

\* the environment of the deployment: two different secrets
DeployedSecrets == [JWT_ACCESS_TOKEN_SECRET |-> "s1", JWT_REFRESH_TOKEN_SECRET |-> "s2"]

\* configService.get(`JWT_${typeUpper}_TOKEN_SECRET`)
SecretOf(env, type) ==
    IF type = "access" THEN env.JWT_ACCESS_TOKEN_SECRET ELSE env.JWT_REFRESH_TOKEN_SECRET

\* the users that sign in: id, email and role of the user row
TokenUsers == { [sub |-> 1, email |-> "u1", role |-> "user"],
                [sub |-> 2, email |-> "u2", role |-> "admin"] }

\* the payload of no token
NoPayload == [sub |-> 0, email |-> "", role |-> "", type |-> "", iat |-> 0]

\* jwt.sign and jwt.verify: a token is its payload under the key that signed it
jwtSign(payload, secret) == [payload |-> payload, key |-> secret]
jwtVerify(token, secret) == token.key = secret

\* JWTService.signToken; jwt.sign stamps the payload with iat, the time of
\* issue in seconds
signToken(env, payload, now) ==
    jwtSign([sub |-> payload.sub, email |-> payload.email, role |-> payload.role,
             type |-> payload.type, iat |-> now],
            SecretOf(env, payload.type))

\* JWTService.generateTokenPair
generateTokenPair(env, user, now) ==
    [ type \in {"access", "refresh"} |->
        signToken(env, [sub |-> user.sub, email |-> user.email, role |-> user.role,
                        type |-> type], now) ]

\* JWTService.verifyToken: the payload, or the error thrown; a field that is
\* not in the payload has its NoPayload value
verifyToken(env, token, type) ==
    LET secret == SecretOf(env, type)
    IN IF secret = "" THEN [ok |-> FALSE, payload |-> NoPayload]
       ELSE IF ~jwtVerify(token, secret) THEN [ok |-> FALSE, payload |-> NoPayload]
       ELSE IF token.payload.sub = 0 \/ token.payload.email = ""
               \/ token.payload.role = "" \/ token.payload.type = ""
       THEN [ok |-> FALSE, payload |-> NoPayload]
       ELSE [ok |-> TRUE, payload |-> token.payload]

\* a request without Authorization header, and a token signed by someone
\* who has neither secret
NoToken == [payload |-> NoPayload, key |-> ""]
ForgedToken ==
    [payload |-> [sub |-> 2, email |-> "u2", role |-> "admin", type |-> "access",
                  iat |-> 0],
     key |-> "guess"]

\* every token a request may carry
Tokens ==
    { generateTokenPair(env, user, now)[type] :
         env \in SecretEnvs, user \in TokenUsers, now \in 0..MaxIat,
         type \in {"access", "refresh"} }
        \cup {NoToken, ForgedToken}

\* the @Roles(...) metadata of a route: none (public), @Roles(), or roles
NoRoles == [defined |-> FALSE, roles |-> {}]
RouteRoles == {NoRoles} \cup { [defined |-> TRUE, roles |-> rs] : rs \in { {}, {"admin"}, {"user"} } }

\* AuthGuard.canActivate: true, false, or the message of the exception
canActivate(env, roles, token) ==
    IF ~roles.defined THEN "true"
    ELSE IF token = NoToken THEN "No token provided"
    ELSE LET verified == verifyToken(env, token, "access")
         IN IF ~verified.ok THEN "Invalid credentials"
            ELSE IF roles.roles = {} THEN "true"
            ELSE IF verified.payload.role \in roles.roles THEN "true" ELSE "false"

\* no token issued, no guarded request made yet
NoIam(env) ==
    [env |-> env, issued |-> {},
     request |-> [roles |-> NoRoles, token |-> NoToken, result |-> ""]]

(***************************************************************************)
(* Sessions: RefreshTokenRotationService on its Redis keys, within the      *)
(* time to live of the keys.                                                *)
(***************************************************************************)
UserIds == { user.sub : user \in TokenUsers }
UserOf(sub) == CHOOSE user \in TokenUsers : user.sub = sub
\* generateFingerPrintId(req): the browsers that requests come from
Fingerprints == {"f1", "f2"}

\* the two AuthService calls that may be in flight at a time
Calls == {1, 2}

\* session:${userId}:${fingerprint} holds one refresh token (NoToken: no key);
\* user_sessions:${userId} is a set of fingerprints
NoSessions == [sessions     |-> [u \in UserIds, f \in Fingerprints |-> NoToken],
               userSessions |-> [u \in UserIds |-> {}]]

\* rotateToken, its first command: setex(sessionKey, ttl, {refreshToken, ...})
rotateTokenSetex(store, newToken, userId, fingerprintId) ==
    [store EXCEPT !.sessions[userId, fingerprintId] = newToken]

\* rotateToken, after it: sadd(userSessionsKey, fingerprintId) and expire
rotateTokenSadd(store, userId, fingerprintId) ==
    [store EXCEPT !.userSessions[userId] = @ \cup {fingerprintId}]

\* compareToken: get(sessionKey), and the stored token is the one presented
compareToken(store, token, userId, fingerprintId) ==
    /\ store.sessions[userId, fingerprintId] # NoToken
    /\ store.sessions[userId, fingerprintId] = token

\* invalidateToken: del(sessionKey), then srem(userSessionsKey, fingerprintId)
invalidateTokenDelAll(store, userId, fingerprintId) ==
    [store EXCEPT !.sessions = [u \in UserIds, f \in Fingerprints |->
                                   IF u = userId THEN NoToken ELSE @[u, f]]]
invalidateTokenDel(store, userId, fingerprintId) ==
    [store EXCEPT !.sessions[userId, fingerprintId] = NoToken]
invalidateTokenSrem(store, userId, fingerprintId) ==
    [store EXCEPT !.userSessions[userId] = @ \ {fingerprintId}]

\* invalidateAllUserSessions: smembers, then one pipeline that deletes the
\* session key of each fingerprint read and the set
invalidateAllPipeline(store, userId, fingerprints) ==
    IF fingerprints = {} THEN store
    ELSE [store EXCEPT !.sessions = [u \in UserIds, f \in Fingerprints |->
                                        IF u = userId /\ f \in fingerprints
                                        THEN NoToken ELSE @[u, f]],
                       !.userSessions[userId] = {}]

\* a request slot with no call in it
NoCall == [op |-> "none", pc |-> "idle", result |-> "", userId |-> 0,
           fingerprintId |-> "", token |-> NoToken, newToken |-> NoToken,
           fingerprints |-> {}, issuedBefore |-> {}]

\* nobody has signed in
NoAuth == [store |-> NoSessions, now |-> 0, issued |-> {}, started |-> 0,
           redeemed |-> {}, redeemedAgain |-> {},
           calls |-> [c \in Calls |-> NoCall]]

VARIABLES
    redis,      \* the Redis keyspace: one stream per key
    clock,      \* the server time that '*' ids are drawn from
    expiries,   \* per key, how many times the key has expired
    job,        \* the BullMQ job of the chat_agents queue
    runs,       \* per delivery of the job, the position of process()
    readers,    \* per reader, the state of its request and Observable
    submitted,  \* the answer of the last startAgentJob call
    config,     \* the stream section of the configuration in force
    info,       \* the answer of the last stream-info request
    iam,        \* token secrets, the tokens issued, the last guarded request
    keyreq,     \* the last stream key handed to validateStreamKey, and the verdict
    auth        \* the session store in Redis, and the AuthService calls in flight

vars == <<redis, clock, expiries, job, runs, readers, submitted, config, info, iam,
          keyreq, auth>>

(***************************************************************************)
(* Initial state: an empty keyspace, an empty queue, no reader.             *)
(***************************************************************************)
Users == {1, 2}
\* the conversation rows: conversation 1 belongs to user 1
ConversationOwner == [c \in ConversationIds |-> 1]
\* the model values a request body may carry
RequestModels == {"gpt-4o", "gpt-3"}

\* no stream-info request has been answered yet
NoInfo == [key |-> <<>>, exists |-> FALSE, messageCount |-> 0, ttl |-> NoTtl,
           lastMessageId |-> 0, error |-> ""]
NoJob == [state |-> "none", data |-> <<>>, stalled |-> 0, attempts |-> 0]
IdleRun == [pc |-> "idle", key |-> <<>>, yielded |-> <<>>, err |-> ""]
\* getStream's closure variables before the request arrives
IdleReader ==
    [pc |-> "idle", key |-> <<>>, lastId |-> 0, emptyPollCount |-> 0,
     isActive |-> FALSE, emitted |-> <<>>, outcome |-> "",
     messageCount |-> 0, epoch |-> 0, idleMs |-> 0]

Init ==
    /\ redis = [k \in Keys |-> NoKey]
    /\ clock = 0
    /\ expiries = [k \in Keys |-> 0]
    /\ job = NoJob
    /\ runs = [a \in Runs |-> IdleRun]
    /\ readers = [r \in Readers |-> IdleReader]
    /\ submitted = [status |-> "none", streamKey |-> <<>>]
    /\ config = globalConfig(DeployedEnv)
    /\ info = NoInfo
    /\ keyreq = NoKeyReq
    /\ auth = NoAuth
    /\ iam = NoIam(DeployedSecrets)

\* the same, for any environment the validation accepts
InitConfigured ==
    /\ redis = [k \in Keys |-> NoKey]
    /\ clock = 0
    /\ expiries = [k \in Keys |-> 0]
    /\ job = NoJob
    /\ runs = [a \in Runs |-> IdleRun]
    /\ readers = [r \in Readers |-> IdleReader]
    /\ submitted = [status |-> "none", streamKey |-> <<>>]
    /\ config \in AcceptedConfigs
    /\ info = NoInfo
    /\ keyreq = NoKeyReq
    /\ auth = NoAuth
    /\ iam = NoIam(DeployedSecrets)

(***************************************************************************)
(* Redis itself: key expiry.                                                *)
(***************************************************************************)
\* a key with a time to live is deleted when the time has passed
KeyExpires(k) ==
    /\ redis[k].exists
    /\ redis[k].ttl # NoTtl
    /\ expiries[k] < MaxExpiries
    /\ redis' = [redis EXCEPT ![k] = NoKey]
    /\ expiries' = [expiries EXCEPT ![k] = @ + 1]
    /\ UNCHANGED <<clock, job, runs, readers, submitted, config, info, iam, keyreq, auth>>

(***************************************************************************)
(* SimpleChatAgentService.startAgentJob                                     *)
(***************************************************************************)
\* the message of the error a Redis command rejects with when the
\* connection is lost
ConnectionError == "Connection is closed"
\* the message of an error the engine raises
EngineError == "engine failure"
\* the message of an error findOne or agent.stream(...) rejects with
InvocationError == "engine invocation failure"

startAgentJobAddsFirst(user, conversationId, model, jobId) ==
    /\ job.state = "none"
    /\ job' = [state    |-> "waiting",
               data     |-> [conversationId |-> conversationId,
                             message |-> "ping", model |-> model,
                             userId |-> user, jobId |-> jobId],
               stalled  |-> 0,
               attempts |-> 0]
    /\ IF model \notin SUPPORTED_MODELS
       THEN submitted' = [status |-> "Model not supported", streamKey |-> <<>>]
       ELSE IF ConversationOwner[conversationId] # user
       THEN submitted' = [status |-> "You are not allowed to access this conversation",
                          streamKey |-> <<>>]
       ELSE submitted' = [status |-> "ok",
                          streamKey |-> generateStreamKey(conversationId, model, jobId)]
    /\ UNCHANGED <<redis, clock, expiries, runs, readers, config, info, iam, keyreq, auth>>

startAgentJob(user, conversationId, model, jobId) ==
    /\ job.state = "none"
    /\ IF model \notin SUPPORTED_MODELS
       THEN /\ submitted' = [status |-> "Model not supported", streamKey |-> <<>>]
            /\ UNCHANGED <<redis, job>>
       ELSE IF ConversationOwner[conversationId] # user
       THEN /\ submitted' = [status |-> "You are not allowed to access this conversation",
                             streamKey |-> <<>>]
            /\ UNCHANGED <<redis, job>>
       ELSE LET streamKey == generateStreamKey(conversationId, model, jobId)
            IN \/ /\ redis' = Expire(redis, streamKey, config.ttl)
                  /\ job' = [state    |-> "waiting",
                             data     |-> [conversationId |-> conversationId,
                                           message |-> "ping", model |-> model,
                                           userId |-> user, jobId |-> jobId],
                             stalled  |-> 0,
                             attempts |-> 0]
                  /\ submitted' = [status |-> "ok", streamKey |-> streamKey]
               \/ \* redis.expire or queue.add rejects
                  /\ submitted' = [status |-> ConnectionError, streamKey |-> <<>>]
                  /\ UNCHANGED <<redis, job>>
    /\ UNCHANGED <<clock, expiries, runs, readers, config, info, iam, keyreq, auth>>

(***************************************************************************)
(* The chat_agents queue (BullMQ): delivery, stall detection, completion.   *)
(***************************************************************************)
\* a worker takes the waiting job and calls process(job)
Claim ==
    /\ job.state = "waiting"
    /\ job' = [job EXCEPT !.state = "active", !.attempts = @ + 1]
    /\ runs' = [runs EXCEPT ![job.attempts + 1] =
                    [pc |-> "start",
                     key |-> ProcessStreamKey(job.data.conversationId, job.data.model,
                                              job.data.jobId),
                     yielded |-> <<>>, err |-> ""]]
    /\ UNCHANGED <<redis, clock, expiries, readers, submitted, config, info, iam, keyreq, auth>>

\* the lock of the active job expired because its worker died (dead) or was
\* blocked for too long: the job goes back to waiting while stalls are
\* tolerated, else it fails; a dead worker's process() takes no further step
StalledAlwaysRequeued(dead) ==
    /\ job.state = "active"
    /\ job.attempts \in Runs
    /\ runs[job.attempts].pc # "end"
    /\ job' = [job EXCEPT !.state = "waiting", !.stalled = @ + 1]
    /\ IF dead
       THEN runs' = [runs EXCEPT ![job.attempts].pc = "crashed"]
       ELSE UNCHANGED runs
    /\ UNCHANGED <<redis, clock, expiries, readers, submitted, config, info, iam, keyreq, auth>>

Stalled(dead) ==
    /\ job.state = "active"
    /\ runs[job.attempts].pc # "end"
    /\ IF job.stalled < MaxStalledCount
       THEN job' = [job EXCEPT !.state = "waiting", !.stalled = @ + 1]
       ELSE job' = [job EXCEPT !.state = "failed"]
    /\ IF dead
       THEN runs' = [runs EXCEPT ![job.attempts].pc = "crashed"]
       ELSE UNCHANGED runs
    /\ UNCHANGED <<redis, clock, expiries, readers, submitted, config, info, iam, keyreq, auth>>

\* process() has settled: the worker that still holds the job's lock moves
\* it to completed or failed (removeOnComplete, removeOnFail; one attempt)
Finished(a) ==
    /\ runs[a].pc \in {"resolved", "rejected"}
    /\ runs' = [runs EXCEPT ![a].pc = "end"]
    /\ IF job.state = "active" /\ job.attempts = a
       THEN job' = [job EXCEPT !.state =
                        IF runs[a].pc = "resolved" THEN "completed" ELSE "failed"]
       ELSE UNCHANGED job
    /\ UNCHANGED <<redis, clock, expiries, readers, submitted, config, info, iam, keyreq, auth>>

(***************************************************************************)
(* SimpleChatAgentProcessor.process, one action per await.  Each Redis      *)
(* command either takes effect or rejects with a connection error.          *)
(***************************************************************************)
\* findOne, createReactAgent and `await agent.stream(...)`, all before the
\* try block: an error here leaves process() without touching the stream
ProcessStart(a) ==
    /\ runs[a].pc = "start"
    /\ \/ runs' = [runs EXCEPT ![a].pc = "gen"]
       \/ runs' = [runs EXCEPT ![a].pc = "rejected", ![a].err = InvocationError]
    /\ UNCHANGED <<redis, clock, expiries, job, readers, submitted, config, info, iam, keyreq, auth>>

\* the for-await loop receives a chunk and xadds it
ProcessChunk(a) ==
    /\ runs[a].pc = "gen"
    /\ Len(runs[a].yielded) < MaxFrags
    /\ LET chunk == Chunk(EngineScript[Len(runs[a].yielded) + 1])
       IN \/ /\ redis' = XAdd(redis, runs[a].key, clock + 1, DataFields(chunk))
             /\ clock' = clock + 1
             /\ runs' = [runs EXCEPT ![a].pc = "expire",
                                     ![a].yielded = Append(@, chunk)]
          \/ /\ runs' = [runs EXCEPT ![a].pc = "catch",
                                     ![a].yielded = Append(@, chunk),
                                     ![a].err = ConnectionError]
             /\ UNCHANGED <<redis, clock>>
    /\ UNCHANGED <<expiries, job, readers, submitted, config, info, iam, keyreq, auth>>

\* the expire call that follows the xadd of a chunk
ProcessRefreshTtl(a) ==
    /\ runs[a].pc = "expire"
    /\ \/ /\ redis' = Expire(redis, runs[a].key, config.ttl)
          /\ runs' = [runs EXCEPT ![a].pc = "gen"]
       \/ /\ runs' = [runs EXCEPT ![a].pc = "catch", ![a].err = ConnectionError]
          /\ UNCHANGED redis
    /\ UNCHANGED <<clock, expiries, job, readers, submitted, config, info, iam, keyreq, auth>>

\* the engine's stream ends: the completion signal is xadded
ProcessComplete(a) ==
    /\ runs[a].pc = "gen"
    /\ \/ /\ redis' = XAdd(redis, runs[a].key, clock + 1,
                           DataFields(CompletionData(job.data.jobId, clock)))
          /\ clock' = clock + 1
          /\ runs' = [runs EXCEPT ![a].pc = "resolved"]
       \/ /\ runs' = [runs EXCEPT ![a].pc = "catch", ![a].err = ConnectionError]
          /\ UNCHANGED <<redis, clock>>
    /\ UNCHANGED <<expiries, job, readers, submitted, config, info, iam, keyreq, auth>>

\* the engine raises while the loop waits for the next chunk
ProcessEngineRaises(a) ==
    /\ runs[a].pc = "gen"
    /\ runs' = [runs EXCEPT ![a].pc = "catch", ![a].err = EngineError]
    /\ UNCHANGED <<redis, clock, expiries, job, readers, submitted, config, info, iam, keyreq, auth>>

\* catch block: xadd of the error completion signal; when this xadd rejects,
\* its error leaves process()
ProcessCatchAppend(a) ==
    /\ runs[a].pc = "catch"
    /\ \/ /\ redis' = XAdd(redis, runs[a].key, clock + 1,
                           DataFields(ErrorData(job.data.jobId, clock, runs[a].err)))
          /\ clock' = clock + 1
          /\ runs' = [runs EXCEPT ![a].pc = "catchExpire"]
       \/ /\ runs' = [runs EXCEPT ![a].pc = "rejected", ![a].err = ConnectionError]
          /\ UNCHANGED <<redis, clock>>
    /\ UNCHANGED <<expiries, job, readers, submitted, config, info, iam, keyreq, auth>>

\* catch block: the shorter TTL, then `throw error`
ProcessCatchExpire(a) ==
    /\ runs[a].pc = "catchExpire"
    /\ \/ /\ redis' = Expire(redis, runs[a].key, config.errorTtl)
          /\ runs' = [runs EXCEPT ![a].pc = "rejected"]
       \/ /\ runs' = [runs EXCEPT ![a].pc = "rejected", ![a].err = ConnectionError]
          /\ UNCHANGED redis
    /\ UNCHANGED <<clock, expiries, job, readers, submitted, config, info, iam, keyreq, auth>>

(***************************************************************************)
(* Reader pre-check: ChatAgentsController.streamAgent.                      *)
(***************************************************************************)
\* StreamErrorHandler.createFromRedisError, on the message of the error
createFromRedisError(message) ==
    IF message \in {"WRONGTYPE Operation against a key holding the wrong kind of value"}
    THEN "INVALID_TYPE"
    ELSE IF message \in {"Connection is closed", "connect ECONNREFUSED"}
    THEN "CONNECTION_ERROR"
    ELSE "NOT_FOUND"

\* RedisStreamUtils.checkStreamExists, given what xlen answered: a length,
\* or the message of the error it rejected with
checkStreamExists(answer) ==
    IF answer.ok
    THEN [exists |-> TRUE, messageCount |-> answer.length]
    ELSE [exists |-> FALSE, messageCount |-> 0]

\* StreamErrorHandler.toHttpException: the HTTP status of a StreamErrorType
toHttpException(type) ==
    IF type \in {"NOT_FOUND", "EMPTY", "INVALID_TYPE"} THEN 400 ELSE 500

\* StreamValidator.validateStreamData: the StreamErrorType thrown, or "ok"
validateStreamDataNoEmpty(exists, messageCount) ==
    IF ~exists THEN "NOT_FOUND" ELSE "ok"
validateStreamData(exists, messageCount) ==
    IF ~exists THEN "NOT_FOUND"
    ELSE IF messageCount = 0 THEN "EMPTY"
    ELSE "ok"

\* `let lastId = '0'` of getStream: below every id, so the first xread
\* answers with the whole stream
InitialLastIdLatest == clock
InitialLastId == 0

\* streamAgent after xlen answered: rejected by the pre-check, or the
\* Observable of getStream is returned and subscribed
PreCheck(r, k, answer) ==
    LET v == checkStreamExists(answer)
        verdict == validateStreamData(v.exists, v.messageCount)
    IN IF verdict = "ok"
       THEN [IdleReader EXCEPT !.pc = "subscribed", !.key = k, !.isActive = TRUE,
                               !.lastId = InitialLastId,
                               !.messageCount = v.messageCount,
                               !.epoch = expiries[k]]
       ELSE [IdleReader EXCEPT !.pc = "rejected", !.key = k, !.outcome = verdict,
                               !.messageCount = v.messageCount,
                               !.epoch = expiries[k]]

streamAgent(r, k) ==
    /\ readers[r].pc = "idle"
    /\ \/ readers' = [readers EXCEPT ![r] =
                        PreCheck(r, k, [ok |-> TRUE, length |-> XLen(redis, k)])]
       \/ readers' = [readers EXCEPT ![r] =
                        PreCheck(r, k, [ok |-> FALSE, length |-> 0])]
    /\ UNCHANGED <<redis, clock, expiries, job, runs, submitted, config, info, iam, keyreq, auth>>

(***************************************************************************)
(* SimpleChatAgentService.getStream: the Observable's subscriber function.  *)
(***************************************************************************)
\* observer.complete() and observer.error() end the subscription, which runs
\* the cleanup function (isActive = false, clearTimeout)
Stop(rd, pc, outcome) ==
    [rd EXCEPT !.pc = IF rd.isActive THEN pc ELSE "cancelled",
               !.outcome = IF rd.isActive THEN outcome ELSE rd.outcome,
               !.isActive = FALSE]

\* STREAM_CONFIG, in milliseconds
POLL_INTERVAL == 50
BLOCK_TIME == 100
REDIS_RETRY_DELAY == 1000

\* stream.maxIdleTime in milliseconds: maxEmptyPolls = (maxIdleTime * 1000) / 100
MaxIdleMs == MaxEmptyPolls * BLOCK_TIME

\* the time that has passed since the reader last received a record (or since
\* it subscribed), counted up to the first value past every comparison made
ElapsedCap == MaxIdleMs + POLL_INTERVAL
Elapse(ms, delay) == IF ms + delay > ElapsedCap THEN ElapsedCap ELSE ms + delay

\* setTimeout(pollForMessages, delay) under `if (isActive)`
Reschedule(rd, timer, delay) ==
    IF rd.isActive THEN [rd EXCEPT !.pc = timer, !.idleMs = Elapse(@, delay)]
    ELSE [rd EXCEPT !.pc = "cancelled"]

\* the inner checkStreamExists: xlen, then the first pollForMessages() call,
\* which returns at once when the subscription has been torn down
SubscribeCheck(r) ==
    /\ readers[r].pc = "subscribed"
    /\ \/ readers' = [readers EXCEPT ![r] =
                        IF @.isActive THEN [@ EXCEPT !.pc = "reading"]
                        ELSE [@ EXCEPT !.pc = "cancelled"]]
       \/ readers' = [readers EXCEPT ![r] = Stop(@, "errored", "not found or inaccessible")]
    /\ UNCHANGED <<redis, clock, expiries, job, runs, submitted, config, info, iam, keyreq, auth>>

\* StreamMessage handed to observer.next (its timestamp is left out)
StreamMessage(entry) ==
    [id |-> entry.id, data |-> safeJsonParse(parseRedisFields(entry.fields))]

\* the for loop over the messages of one xread answer, from message i on
RECURSIVE EmitLoopSilentStop(_, _, _)
EmitLoopSilentStop(rd, messages, i) ==
    IF i > Len(messages) THEN Reschedule(rd, "timer", POLL_INTERVAL)
    ELSE IF ~rd.isActive THEN Reschedule(rd, "timer", POLL_INTERVAL)
    ELSE LET m == StreamMessage(messages[i])
             next == [rd EXCEPT !.emitted = Append(@, m), !.lastId = m.id]
         IN IF IsComplete(m.data)
            THEN Stop(rd, "completed", "complete")
            ELSE EmitLoopSilentStop(next, messages, i + 1)

RECURSIVE EmitLoopNoBreak(_, _, _)
EmitLoopNoBreak(rd, messages, i) ==
    IF i > Len(messages) THEN Reschedule(rd, "timer", POLL_INTERVAL)
    ELSE LET m == StreamMessage(messages[i])
             next == [rd EXCEPT !.emitted = Append(@, m), !.lastId = m.id]
         IN IF IsComplete(m.data)
            THEN Stop(next, "completed", "complete")
            ELSE EmitLoopNoBreak(next, messages, i + 1)

RECURSIVE EmitLoop(_, _, _)
EmitLoop(rd, messages, i) ==
    IF i > Len(messages) THEN Reschedule(rd, "timer", POLL_INTERVAL)
    ELSE IF ~rd.isActive THEN Reschedule(rd, "timer", POLL_INTERVAL)
    ELSE LET m == StreamMessage(messages[i])
             next == [rd EXCEPT !.emitted = Append(@, m), !.lastId = m.id]
         IN IF IsComplete(m.data)
            THEN Stop(next, "completed", "complete")
            ELSE EmitLoop(next, messages, i + 1)

\* pollForMessages after xread answered with `messages` (empty: null, after
\* the whole BLOCK_TIME)
HandleReadNoReset(rd, messages) ==
    IF Len(messages) > 0
    THEN EmitLoop(rd, messages, 1)
    ELSE LET counted == [rd EXCEPT !.emptyPollCount = @ + 1,
                                   !.idleMs = Elapse(@, BLOCK_TIME)]
         IN IF counted.emptyPollCount >= MaxEmptyPolls
            THEN Stop(counted, "errored", "Stream timeout")
            ELSE Reschedule(counted, "timer", POLL_INTERVAL)
HandleRead(rd, messages) ==
    IF Len(messages) > 0
    THEN EmitLoop([rd EXCEPT !.emptyPollCount = 0, !.idleMs = 0], messages, 1)
    ELSE LET counted == [rd EXCEPT !.emptyPollCount = @ + 1,
                                   !.idleMs = Elapse(@, BLOCK_TIME)]
         IN IF counted.emptyPollCount >= MaxEmptyPolls
            THEN Stop(counted, "errored", "Stream timeout")
            ELSE Reschedule(counted, "timer", POLL_INTERVAL)

\* the catch block of pollForMessages
HandleReadError(rd, message) ==
    IF message \in {"Connection is closed", "connect ECONNREFUSED"}
    THEN Reschedule(rd, "timer", REDIS_RETRY_DELAY)
    ELSE Stop(rd, "errored", message)

\* the messages of the errors xread may reject with
ReadErrors == {"Connection is closed", "connect ECONNREFUSED", "connect ETIMEDOUT"}

\* the xread of pollForMessages answers
PollReturns(r) ==
    /\ readers[r].pc = "reading"
    /\ readers' = [readers EXCEPT ![r] =
                        HandleRead(@, XRead(redis, @.key, @.lastId))]
    /\ UNCHANGED <<redis, clock, expiries, job, runs, submitted, config, info, iam, keyreq, auth>>

\* the xread of pollForMessages rejects
PollFails(r) ==
    /\ readers[r].pc = "reading"
    /\ \E message \in ReadErrors :
          readers' = [readers EXCEPT ![r] = HandleReadError(@, message)]
    /\ UNCHANGED <<redis, clock, expiries, job, runs, submitted, config, info, iam, keyreq, auth>>

\* a timer set by pollForMessages fires: pollForMessages runs and calls xread
TimerFires(r) ==
    /\ readers[r].pc \in {"timer"}
    /\ readers' = [readers EXCEPT ![r] =
                        IF @.isActive THEN [@ EXCEPT !.pc = "reading"]
                        ELSE [@ EXCEPT !.pc = "cancelled"]]
    /\ UNCHANGED <<redis, clock, expiries, job, runs, submitted, config, info, iam, keyreq, auth>>

\* the client goes away: the cleanup function of the Observable runs
UnsubscribeDeletes(r) ==
    /\ readers[r].isActive
    /\ readers' = [readers EXCEPT ![r] =
                        IF @.pc \in {"timer"}
                        THEN [@ EXCEPT !.isActive = FALSE, !.pc = "cancelled"]
                        ELSE [@ EXCEPT !.isActive = FALSE]]
    /\ redis' = [redis EXCEPT ![readers[r].key] = NoKey]
    /\ UNCHANGED <<clock, expiries, job, runs, submitted, config, info, iam, keyreq, auth>>

Unsubscribe(r) ==
    /\ readers[r].isActive
    /\ readers' = [readers EXCEPT ![r] =
                        IF @.pc \in {"timer"}
                        THEN [@ EXCEPT !.isActive = FALSE, !.pc = "cancelled"]
                        ELSE [@ EXCEPT !.isActive = FALSE]]
    /\ UNCHANGED <<redis, clock, expiries, job, runs, submitted, config, info, iam, keyreq, auth>>

(***************************************************************************)
(* The stream-info endpoint: ChatAgentsController.getStreamInfo.            *)
(***************************************************************************)
\* RedisStreamUtils.getStreamInfo: xlen, ttl and xrevrange answered (ok), or
\* one of them rejected
getStreamInfo(db, k, ok) ==
    IF ok
    THEN LET length == XLen(db, k)
             ttl == Ttl(db, k)
             lastMessage == XRevRange1(db, k)
         IN [key |-> k, exists |-> TRUE, messageCount |-> length,
             ttl |-> IF ttl > 0 THEN ttl ELSE NoTtl,
             lastMessageId |-> IF Len(lastMessage) > 0 THEN lastMessage[1].id ELSE 0,
             error |-> ""]
    ELSE [key |-> k, exists |-> FALSE, messageCount |-> 0, ttl |-> NoTtl,
          lastMessageId |-> 0, error |-> createFromRedisError(ConnectionError)]

\* a stream-info request for key k is answered
StreamInfoQuery(k) ==
    /\ \E ok \in BOOLEAN : info' = getStreamInfo(redis, k, ok)
    /\ UNCHANGED <<redis, clock, expiries, job, runs, readers, submitted, config, iam, keyreq, auth>>

(***************************************************************************)
(* Sign-in and guarded requests.                                            *)
(***************************************************************************)
\* a user signs in (or up, or refreshes): generateTokenPair issues two tokens
SignIn(user) ==
    /\ iam' = [iam EXCEPT !.issued =
                   @ \cup { generateTokenPair(iam.env, user, 0)[type] :
                               type \in {"access", "refresh"} }]
    /\ UNCHANGED <<redis, clock, expiries, job, runs, readers, submitted, config, info, keyreq, auth>>

\* a request for a route with the given @Roles metadata arrives with a token
GuardedRequest(roles, token) ==
    /\ token \in iam.issued \cup {NoToken, ForgedToken}
    /\ iam' = [iam EXCEPT !.request =
                   [roles |-> roles, token |-> token,
                    result |-> canActivate(iam.env, roles, token)]]
    /\ UNCHANGED <<redis, clock, expiries, job, runs, readers, submitted, config, info, keyreq, auth>>

(***************************************************************************)
(* AuthService: signIn (signUp ends the same way), refreshTokens, signOut   *)
(* and signOutAll, one action per await on Redis.                           *)
(***************************************************************************)
AuthFrame == UNCHANGED <<redis, clock, expiries, job, runs, readers, submitted, config,
                         info, iam, keyreq>>

\* the clock reaches the next second
Tick ==
    /\ auth.now < MaxIat
    /\ auth' = [auth EXCEPT !.now = @ + 1]
    /\ AuthFrame

\* a call ends: with its result, or with the exception thrown
Return(call, result) == [call EXCEPT !.pc = "done", !.result = result]

\* a request arrives in a free slot
Begin(c) ==
    /\ auth.calls[c].pc \in {"idle", "done"}
    /\ auth.started < MaxCalls

\* signIn after the credentials were found good: generateTokenPair
signIn(c, user, fingerprintId) ==
    /\ Begin(c)
    /\ LET tokens == generateTokenPair(iam.env, user, auth.now)
       IN auth' = [auth EXCEPT
                     !.started = @ + 1,
                     !.calls[c] = [NoCall EXCEPT !.op = "signIn", !.pc = "setex",
                                                 !.userId = user.sub,
                                                 !.fingerprintId = fingerprintId,
                                                 !.newToken = tokens["refresh"]]]
    /\ AuthFrame

\* refreshTokens with the cookie's token: verifyToken(refreshToken, 'refresh')
refreshTokens(c, refreshToken, fingerprintId) ==
    /\ Begin(c)
    /\ refreshToken \in auth.issued
    /\ LET verified == verifyToken(iam.env, refreshToken, "refresh")
           call == [NoCall EXCEPT !.op = "refreshTokens", !.pc = "compare",
                                  !.userId = verified.payload.sub,
                                  !.fingerprintId = fingerprintId,
                                  !.token = refreshToken]
       IN auth' = [auth EXCEPT
                     !.started = @ + 1,
                     !.calls[c] = IF verified.ok THEN call
                                  ELSE Return(call, "Invalid refresh token")]
    /\ AuthFrame

\* refreshTokens: compareToken answers, and on a match generateTokenPair
RefreshCompare(c) ==
    /\ auth.calls[c].op = "refreshTokens" /\ auth.calls[c].pc = "compare"
    /\ LET call == auth.calls[c]
           tokens == generateTokenPair(iam.env, UserOf(call.userId), auth.now)
       IN IF compareToken(auth.store, call.token, call.userId, call.fingerprintId)
          THEN auth' = [auth EXCEPT
                          !.calls[c] = [call EXCEPT !.pc = "setex",
                                                    !.newToken = tokens["refresh"]]]
          ELSE auth' = [auth EXCEPT !.calls[c] = Return(call, "Invalid refresh token")]
    /\ AuthFrame

\* rotateToken of signIn and refreshTokens: setex
RotateSetex(c) ==
    /\ auth.calls[c].pc = "setex"
    /\ LET call == auth.calls[c]
       IN auth' = [auth EXCEPT
                     !.store = rotateTokenSetex(@, call.newToken, call.userId,
                                                call.fingerprintId),
                     !.calls[c].pc = "sadd"]
    /\ AuthFrame

\* rotateToken: sadd and expire; then the call answers with the new tokens,
\* the refresh token in the cookie: from now on a client can present it
RotateSadd(c) ==
    /\ auth.calls[c].pc = "sadd"
    /\ LET call == auth.calls[c]
           again == call.op = "refreshTokens" /\ call.token \in auth.redeemed
       IN auth' = [auth EXCEPT
                     !.store = rotateTokenSadd(@, call.userId, call.fingerprintId),
                     !.issued = @ \cup {call.newToken},
                     !.redeemed = IF call.op = "refreshTokens"
                                  THEN @ \cup {call.token} ELSE @,
                     !.redeemedAgain = IF again THEN @ \cup {call.token} ELSE @,
                     !.calls[c] = Return(call, "ok")]
    /\ AuthFrame

\* signOut with the cookie's token: verifyToken, then invalidateToken's del
signOut(c, refreshToken, fingerprintId) ==
    /\ Begin(c)
    /\ refreshToken \in auth.issued
    /\ LET verified == verifyToken(iam.env, refreshToken, "refresh")
           call == [NoCall EXCEPT !.op = "signOut", !.pc = "del",
                                  !.userId = verified.payload.sub,
                                  !.fingerprintId = fingerprintId,
                                  !.token = refreshToken]
       IN auth' = [auth EXCEPT
                     !.started = @ + 1,
                     !.calls[c] = IF verified.ok THEN call
                                  ELSE Return(call, "Invalid token")]
    /\ AuthFrame

SignOutDel(c) ==
    /\ auth.calls[c].pc = "del"
    /\ LET call == auth.calls[c]
       IN auth' = [auth EXCEPT
                     !.store = invalidateTokenDel(@, call.userId, call.fingerprintId),
                     !.calls[c].pc = "srem"]
    /\ AuthFrame

SignOutSrem(c) ==
    /\ auth.calls[c].pc = "srem"
    /\ LET call == auth.calls[c]
       IN auth' = [auth EXCEPT
                     !.store = invalidateTokenSrem(@, call.userId, call.fingerprintId),
                     !.calls[c] = Return(call, "ok")]
    /\ AuthFrame

\* signOutAll with the cookie's token: verifyToken
signOutAll(c, refreshToken) ==
    /\ Begin(c)
    /\ refreshToken \in auth.issued
    /\ LET verified == verifyToken(iam.env, refreshToken, "refresh")
           call == [NoCall EXCEPT !.op = "signOutAll", !.pc = "smembers",
                                  !.userId = verified.payload.sub,
                                  !.token = refreshToken,
                                  !.issuedBefore =
                                      { t \in auth.issued :
                                          /\ t.payload.sub = verified.payload.sub
                                          /\ t.payload.type = "refresh" }]
       IN auth' = [auth EXCEPT
                     !.started = @ + 1,
                     !.calls[c] = IF verified.ok THEN call
                                  ELSE Return(call, "Invalid token")]
    /\ AuthFrame

\* invalidateAllUserSessions: smembers answers
SignOutAllSmembers(c) ==
    /\ auth.calls[c].pc = "smembers"
    /\ LET call == auth.calls[c]
           fingerprints == auth.store.userSessions[call.userId]
       IN auth' = [auth EXCEPT
                     !.calls[c] = IF fingerprints = {} THEN Return(call, "ok")
                                  ELSE [call EXCEPT !.pc = "exec",
                                                    !.fingerprints = fingerprints]]
    /\ AuthFrame

\* invalidateAllUserSessions: pipeline.exec()
SignOutAllExec(c) ==
    /\ auth.calls[c].pc = "exec"
    /\ LET call == auth.calls[c]
       IN auth' = [auth EXCEPT
                     !.store = invalidateAllPipeline(@, call.userId, call.fingerprints),
                     !.calls[c] = Return(call, "ok")]
    /\ AuthFrame

(***************************************************************************)
(* Stream keys at the endpoints: the controller's validateStreamKey.        *)
(***************************************************************************)
\* a client sends the key that startAgentJob returned for its job to the
\* stream or the stream-info endpoint
ValidateGeneratedKey(conversationId, model, now, fraction) ==
    /\ LET streamKey == generateStreamKeyText(conversationId, model,
                                              generateJobId(now, fraction))
       IN keyreq' = [origin |-> "generated", streamKey |-> streamKey,
                     verdict |-> validateStreamKey(streamKey)]
    /\ UNCHANGED <<redis, clock, expiries, job, runs, readers, submitted, config, info, iam, auth>>

\* a client sends a key of its own making
ValidateClientKey(streamKey) ==
    /\ keyreq' = [origin |-> "client", streamKey |-> streamKey,
                  verdict |-> validateStreamKey(streamKey)]
    /\ UNCHANGED <<redis, clock, expiries, job, runs, readers, submitted, config, info, iam, auth>>

(***************************************************************************)
(* Specifications.                                                          *)
(***************************************************************************)
\* submit, delivery and the steps of process()
WorkerNext ==
    \/ \E u \in Users, c \in ConversationIds, m \in RequestModels, j \in JobIds :
          startAgentJob(u, c, m, j)
    \/ Claim
    \/ \E a \in Runs :
          \/ Finished(a)
          \/ ProcessStart(a)
          \/ ProcessChunk(a)
          \/ ProcessRefreshTtl(a)
          \/ ProcessComplete(a)
          \/ ProcessEngineRaises(a)
          \/ ProcessCatchAppend(a)
          \/ ProcessCatchExpire(a)

\* the steps of reader r
ReaderNext(r) ==
    \/ \E k \in Keys : streamAgent(r, k)
    \/ SubscribeCheck(r)
    \/ PollReturns(r)
    \/ PollFails(r)
    \/ TimerFires(r)
    \/ Unsubscribe(r)

\* one reader; the job is delivered again after a worker died
Next ==
    \/ \E k \in Keys : KeyExpires(k)
    \/ WorkerNext
    \/ Stalled(TRUE)
    \/ ReaderNext(1)

Spec == Init /\ [][Next]_vars

\* no reader; the job is delivered again after any stall, also while the
\* stalled worker is still running process()
NextWorkers ==
    \/ \E k \in Keys : KeyExpires(k)
    \/ WorkerNext
    \/ \E dead \in BOOLEAN : Stalled(dead)

SpecWorkers == Init /\ [][NextWorkers]_vars

\* SpecWorkers with the workers' steps (delivery, process(), settling)
\* scheduled fairly
FairWorkers == Init /\ [][NextWorkers]_vars /\ WF_vars(WorkerNext)

\* the same, started with any configuration the validation accepts
SpecConfigured == InitConfigured /\ [][NextWorkers]_vars

\* all readers, numbered in order of arrival; the job is delivered once
NextReaders ==
    \/ \E k \in Keys : KeyExpires(k)
    \/ WorkerNext
    \/ \E r \in Readers :
          \/ /\ \A q \in 1..(r - 1) : readers[q].pc # "idle"
             /\ \E k \in Keys : streamAgent(r, k)
          \/ SubscribeCheck(r)
          \/ PollReturns(r)
          \/ PollFails(r)
          \/ TimerFires(r)
          \/ Unsubscribe(r)

SpecReaders == Init /\ [][NextReaders]_vars

\* one reader and the stream-info endpoint; the job is delivered once
NextQueries ==
    \/ \E k \in Keys : KeyExpires(k)
    \/ WorkerNext
    \/ ReaderNext(1)
    \/ \E k \in Keys : StreamInfoQuery(k)

SpecQueries == Init /\ [][NextQueries]_vars

\* sign-in and guarded requests under any secrets the validation accepts
InitAuth ==
    /\ redis = [k \in Keys |-> NoKey]
    /\ clock = 0
    /\ expiries = [k \in Keys |-> 0]
    /\ job = NoJob
    /\ runs = [a \in Runs |-> IdleRun]
    /\ readers = [r \in Readers |-> IdleReader]
    /\ submitted = [status |-> "none", streamKey |-> <<>>]
    /\ config = globalConfig(DeployedEnv)
    /\ info = NoInfo
    /\ keyreq = NoKeyReq
    /\ auth = NoAuth
    /\ \E env \in { e \in SecretEnvs : secretsValidationSchema(e) } : iam = NoIam(env)

NextAuth ==
    \/ \E user \in TokenUsers : SignIn(user)
    \/ \E roles \in RouteRoles, token \in Tokens : GuardedRequest(roles, token)

SpecAuth == InitAuth /\ [][NextAuth]_vars

\* the AuthService calls of all users, two at a time
NextSessions ==
    \/ Tick
    \/ \E c \in Calls :
          \/ \E user \in TokenUsers, f \in Fingerprints : signIn(c, user, f)
          \/ \E token \in Tokens, f \in Fingerprints : refreshTokens(c, token, f)
          \/ \E token \in Tokens, f \in Fingerprints : signOut(c, token, f)
          \/ \E token \in Tokens : signOutAll(c, token)
          \/ RefreshCompare(c)
          \/ RotateSetex(c)
          \/ RotateSadd(c)
          \/ SignOutDel(c)
          \/ SignOutSrem(c)
          \/ SignOutAllSmembers(c)
          \/ SignOutAllExec(c)

SpecSessions == Init /\ [][NextSessions]_vars

\* the inputs of key generation: conversation ids, clock readings and the
\* base-36 digits of Math.random()
KeyConversationIds == 0..MaxConversationId
KeyClocks == {0, 7, 1762243200}
KeyFractions == {<<>>, <<3>>, <<35, 0>>, <<10, 35, 9, 0, 1, 20, 33, 7, 8, 9, 10>>}
ClientKeys ==
    { <<>>,
      <<"l", "l", "m", ":", "s", "t", "r", "e", "a", "m", ":", "1", ":", "x", ":", "j", "_", "1">>,
      <<"l", "l", "m", ":", "s", "t", "r", "e", "a", "m", ":", "1", ":", "x", ":", "j", "-", "1">>,
      <<"l", "l", "m", ":", "s", "t", "r", "e", "a", "m", ":", "a", ":", "x", ":", "j">>,
      <<"l", "l", "m", ":", "s", "t", "r", "e", "a", "m", ":", "1", ":", "x", ":">>,
      <<"s", "t", "r", "e", "a", "m", ":", "1", ":", "x", ":", "j">> }

NextKeys ==
    \/ \E c \in KeyConversationIds, m \in SUPPORTED_MODELS, now \in KeyClocks,
          fraction \in KeyFractions : ValidateGeneratedKey(c, m, now, fraction)
    \/ \E streamKey \in ClientKeys : ValidateClientKey(streamKey)

SpecKeys == Init /\ [][NextKeys]_vars

\* the steps reader r takes by itself (the caller's Unsubscribe is not one)
ReaderStep(r) ==
    \/ \E k \in Keys : streamAgent(r, k)
    \/ SubscribeCheck(r)
    \/ PollReturns(r)
    \/ PollFails(r)
    \/ TimerFires(r)

\* Spec with the reader's own steps scheduled fairly
FairSpec == Init /\ [][Next]_vars /\ WF_vars(ReaderStep(1))

(***************************************************************************)
(* Vocabulary of the properties.                                            *)
(***************************************************************************)
Log(k) == redis[k].entries
IdsOf(seq) == [i \in 1..Len(seq) |-> seq[i].id]
DataOf(seq) == [i \in 1..Len(seq) |-> seq[i].data]
IsPrefix(s, t) == Len(s) <= Len(t) /\ \A i \in 1..Len(s) : s[i] = t[i]
StrictlyIncreasing(ids) == \A i, j \in 1..Len(ids) : i < j => ids[i] < ids[j]
\* the log as a reader that starts at its oldest record would hand it on
Replay(k) == [i \in 1..Len(Log(k)) |-> StreamMessage(Log(k)[i])]
\* a terminal sentinel: the completion record or the error record of a run
Terminal(m) == "type" \in DOMAIN m.data /\ m.data.type \in {"completion", "error"}
SuccessTerminal(m) == Terminal(m) /\ m.data.type = "completion"
TerminalPositions(seq) == { i \in 1..Len(seq) : Terminal(seq[i]) }
\* the log up to and with its first terminal record (the whole log without one)
FullReplay(k) ==
    LET t == TerminalPositions(Replay(k))
    IN IF t = {} THEN Replay(k)
       ELSE SubSeq(Replay(k), 1, CHOOSE i \in t : \A j \in t : i <= j)
\* reader r has made its request and its key has not expired since
Unexpired(r) ==
    readers[r].pc # "idle" /\ readers[r].epoch = expiries[readers[r].key]
\* reader r has passed the pre-check
Attached(r) == readers[r].pc \notin {"idle", "rejected"}
\* no job was ever submitted for key k
NeverSubmitted(k) == submitted.status # "ok" \/ submitted.streamKey # k

(***************************************************************************)
(* C1. Order invariant: two readers attached to the same log at the same    *)
(* time observe the same sequence of record ids (at any moment one has seen *)
(* a prefix of what the other has seen), and the ids each reader observes   *)
(* are strictly increasing.                                                 *)
(***************************************************************************)
C1_OrderInvariant ==
    \A r1, r2 \in Readers :
       LET ids1 == IdsOf(readers[r1].emitted)
           ids2 == IdsOf(readers[r2].emitted)
       IN /\ StrictlyIncreasing(ids1)
          /\ ( /\ Attached(r1) /\ Attached(r2)
               /\ readers[r1].key = readers[r2].key
               /\ Unexpired(r1) /\ Unexpired(r2) )
             => (IsPrefix(ids1, ids2) \/ IsPrefix(ids2, ids1))

C1_Witness ==
    /\ readers[1].isActive /\ readers[2].isActive
    /\ readers[1].key = readers[2].key
    /\ Unexpired(1) /\ Unexpired(2)
    /\ Len(readers[1].emitted) = 2
    /\ IdsOf(readers[2].emitted) = IdsOf(readers[1].emitted)
    /\ readers[1].messageCount < readers[2].messageCount

(***************************************************************************)
(* C2. Gap-free ordered delivery: what a reader has emitted is at every     *)
(* moment a prefix of the log in append order: every record once, none      *)
(* skipped, none before a record with a lower id.                           *)
(***************************************************************************)
C2_GapFreeDelivery ==
    \A r \in Readers :
       Unexpired(r) =>
          /\ IsPrefix(readers[r].emitted, Replay(readers[r].key))
          /\ Len(readers[r].emitted) > 0 =>
                readers[r].lastId = readers[r].emitted[Len(readers[r].emitted)].id

C2_Witness ==
    /\ readers[1].pc = "timer"
    /\ Unexpired(1)
    /\ Len(readers[1].emitted) = 2
    /\ Len(Log(readers[1].key)) > 2
    /\ readers[1].messageCount = 1

(***************************************************************************)
(* C3. At most one terminal sentinel: no log ever holds two records with    *)
(* metadata.isComplete = true.                                              *)
(***************************************************************************)
C3_AtMostOneTerminal ==
    \A k \in Keys :
       Cardinality({ i \in 1..Len(Log(k)) : IsComplete(Replay(k)[i].data) }) <= 1

(***************************************************************************)
(* C4. Nothing is appended after the terminal sentinel: a terminal record   *)
(* is always the last record of its log.                                    *)
(***************************************************************************)
C4_TerminalIsLast ==
    \A k \in Keys : \A i \in TerminalPositions(Replay(k)) : i = Len(Log(k))

(***************************************************************************)
(* C5. Producer output equals engine output: when a run whose engine        *)
(* yielded f1..fk completes normally, the log (not expired meanwhile) holds *)
(* exactly f1..fk in that order and then one TERMINAL(success).             *)
(***************************************************************************)
C5_ProducerOutputIsEngineOutput ==
    \A a \in Runs :
       (runs[a].pc = "resolved" /\ expiries[runs[a].key] = 0) =>
          LET log == Replay(runs[a].key)
              k == Len(runs[a].yielded)
          IN /\ Len(log) = k + 1
             /\ \A i \in 1..k : log[i].data = runs[a].yielded[i]
             /\ SuccessTerminal(log[k + 1])

(***************************************************************************)
(* C6. Replay idempotence: readers that ran to completion on the same log   *)
(* (not expired meanwhile) have emitted the same sequence, whether they     *)
(* attached during generation or after it: the log from its oldest record   *)
(* up to and with the terminal sentinel.                                    *)
(***************************************************************************)
C6_ReplayIdempotence ==
    \A r1, r2 \in Readers :
       ( /\ readers[r1].pc = "completed" /\ readers[r2].pc = "completed"
         /\ readers[r1].key = readers[r2].key
         /\ Unexpired(r1) /\ Unexpired(r2) )
       => /\ readers[r1].emitted = readers[r2].emitted
          /\ readers[r1].emitted = FullReplay(readers[r1].key)

C6_Witness ==
    /\ readers[1].pc = "completed" /\ readers[2].pc = "completed"
    /\ readers[1].key = readers[2].key
    /\ Unexpired(1) /\ Unexpired(2)
    /\ readers[1].messageCount = 1
    /\ readers[2].messageCount = Len(Log(readers[2].key))
    /\ Len(readers[2].emitted) = 3

(***************************************************************************)
(* C7. Attach before production: a reader that made its request when the    *)
(* job's log held no record (the store answering), and has stopped of its   *)
(* own accord after the job (delivered once, log not expired) completed     *)
(* normally, has observed the engine's fragments in order and then          *)
(* TERMINAL(success).                                                       *)
(***************************************************************************)
C7_EarlyReaderSeesAll ==
    \A r \in Readers :
       ( /\ readers[r].pc \in {"rejected", "completed", "errored"}
         /\ readers[r].messageCount = 0
         /\ readers[r].outcome # "NOT_FOUND"
         /\ readers[r].key = runs[1].key
         /\ runs[1].pc \in {"resolved", "end"} /\ job.state = "completed"
         /\ job.attempts = 1
         /\ Unexpired(r) )
       => /\ Len(readers[r].emitted) = Len(runs[1].yielded) + 1
          /\ \A i \in 1..Len(runs[1].yielded) :
                readers[r].emitted[i].data = runs[1].yielded[i]
          /\ SuccessTerminal(readers[r].emitted[Len(readers[r].emitted)])

(***************************************************************************)
(* C8. A reader of a well-formed address for which no job was ever          *)
(* submitted fails at once with NotFound and never polls.                   *)
(***************************************************************************)
C8_NotFoundForAbsentLog ==
    \A r \in Readers :
       (readers[r].pc # "idle" /\ NeverSubmitted(readers[r].key)) =>
          /\ readers[r].pc = "rejected"
          /\ readers[r].outcome = "NOT_FOUND"

(***************************************************************************)
(* C9. Terminal stop: a reader has completed exactly when the last record   *)
(* it emitted is a terminal sentinel; the sentinel is emitted, nothing      *)
(* after it is, and no other record completes the reader.                   *)
(***************************************************************************)
C9_TerminalStop ==
    \A r \in Readers :
       LET e == readers[r].emitted
       IN /\ readers[r].pc = "completed" <=> (Len(e) > 0 /\ Terminal(e[Len(e)]))
          /\ \A i \in 1..(Len(e) - 1) : ~Terminal(e[i])

C9_Witness ==
    /\ readers[1].pc = "completed"
    /\ Unexpired(1)
    /\ Len(Log(readers[1].key)) > Len(readers[1].emitted)
    /\ Len(readers[1].emitted) >= 2

(***************************************************************************)
(* C10. No silent hang: a reader whose own steps are scheduled fairly       *)
(* eventually stops: completed, timed out, turned away, or with a surfaced  *)
(* error (or cancelled by its caller).                                      *)
(***************************************************************************)
C10_NoSilentHang ==
    <>(readers[1].pc \in {"rejected", "completed", "errored", "cancelled"})

(***************************************************************************)
(* C11. TTL refresh on append: whenever a run finishes handling a fragment  *)
(* (the expire that follows the fragment's xadd has answered) the log's     *)
(* time to live is the configured live value stream.ttl.                    *)
(***************************************************************************)
C11_TtlRefreshOnAppend ==
    [][\A a \in Runs :
          ( /\ runs[a].pc = "expire" /\ runs'[a].pc = "gen"
            /\ redis[runs[a].key].exists )
          => /\ redis'[runs[a].key].exists
             /\ redis'[runs[a].key].ttl = config.ttl]_vars

C11_Witness ==
    \E a \in Runs :
       /\ runs[a].pc = "gen"
       /\ Len(runs[a].yielded) = MaxFrags
       /\ Len(Log(runs[a].key)) = MaxFrags
       /\ redis[runs[a].key].ttl = config.ttl
       /\ config.ttl # StreamTtl

(***************************************************************************)
(* C12. Error TTL: whenever a run that failed on an engine error has        *)
(* appended TERMINAL(error) and its expire has answered, the log's time to  *)
(* live is stream.errorTtl, and that value is strictly shorter than the     *)
(* live value stream.ttl, for every configuration the validation accepts.   *)
(***************************************************************************)
C12_ErrorTtlShorter ==
    [][\A a \in Runs :
          ( /\ runs[a].pc = "catchExpire" /\ runs'[a].pc = "rejected"
            /\ runs[a].err # ConnectionError /\ runs'[a].err = runs[a].err
            /\ redis[runs[a].key].exists )
          => /\ redis'[runs[a].key].ttl = config.errorTtl
             /\ config.errorTtl < config.ttl]_vars

(***************************************************************************)
(* C13. Success TTL: whenever a run ends by appending TERMINAL(success),    *)
(* the log is retained at the live value: its time to live is stream.ttl.   *)
(***************************************************************************)
C13_SuccessTtlIsLive ==
    [][\A a \in Runs :
          (runs[a].pc = "gen" /\ runs'[a].pc = "resolved")
          => /\ redis'[runs[a].key].exists
             /\ redis'[runs[a].key].ttl = config.ttl]_vars

(***************************************************************************)
(* C14. Every log expires: in every state in which no run of process() is   *)
(* between two of its steps, every key that exists in the store has a time  *)
(* to live.                                                                 *)
(***************************************************************************)
C14_EveryLogExpires ==
    (\A a \in Runs : runs[a].pc \notin {"start", "gen", "expire", "catch", "catchExpire"})
    => \A k \in Keys : redis[k].exists => redis[k].ttl # NoTtl

(***************************************************************************)
(* C15. Mid-stream engine failure: when the engine raised after yielding    *)
(* f1..fk and the run has left process(), the log (not expired meanwhile)   *)
(* is exactly f1..fk in that order followed by TERMINAL(error) whose        *)
(* message is the message of the error raised.                              *)
(***************************************************************************)
C15_MidStreamFailureLog ==
    \A a \in Runs :
       ( /\ runs[a].pc = "rejected" /\ runs[a].err = EngineError
         /\ expiries[runs[a].key] = 0 )
       => LET log == Replay(runs[a].key)
              k == Len(runs[a].yielded)
          IN /\ Len(log) = k + 1
             /\ \A i \in 1..k : log[i].data = runs[a].yielded[i]
             /\ Terminal(log[k + 1])
             /\ log[k + 1].data.type = "error"
             /\ log[k + 1].data.message = EngineError

(***************************************************************************)
(* C16. Every failed run leaves a terminal error in the log: when a run of  *)
(* process() has failed, for whatever reason, the log at the job's address  *)
(* (not expired meanwhile) holds a TERMINAL(error) record.                  *)
(***************************************************************************)
C16_FailedRunLeavesTerminalError ==
    \A a \in Runs :
       (runs[a].pc = "rejected" /\ expiries[runs[a].key] = 0)
       => \E i \in 1..Len(Log(runs[a].key)) :
             /\ Terminal(Replay(runs[a].key)[i])
             /\ Replay(runs[a].key)[i].data.type = "error"

(***************************************************************************)
(* C17. Redelivery uses a fresh log: two runs of process(), whatever made   *)
(* the queue deliver the envelope again, never have the same log address.   *)
(***************************************************************************)
C17_RedeliveryUsesFreshLog ==
    \A a, b \in Runs :
       (a # b /\ runs[a].pc # "idle" /\ runs[b].pc # "idle")
       => runs[a].key # runs[b].key

(***************************************************************************)
(* C18. Single writer: at no time are two runs of process() both between    *)
(* their first and their last store command on the same log address.        *)
(***************************************************************************)
C18_SingleWriter ==
    \A a, b \in Runs :
       ( /\ a # b
         /\ runs[a].pc \in {"gen", "expire", "catch", "catchExpire"}
         /\ runs[b].pc \in {"gen", "expire", "catch", "catchExpire"} )
       => runs[a].key # runs[b].key

(***************************************************************************)
(* C19. Readers are read-only: no step of a reader (pre-check, poll, idle   *)
(* timeout, teardown) and no stream-info request changes the store (no      *)
(* append, no delete, no TTL change) or the queue; so the log after a       *)
(* reader's idle timeout holds what it held before, and the producer's      *)
(* steps do not depend on the readers.                                      *)
(***************************************************************************)
C19_ReadersAreReadOnly ==
    [][(readers' # readers \/ info' # info)
       => UNCHANGED <<redis, clock, expiries, job, runs, submitted, config>>]_vars

C19_Witness ==
    /\ readers[1].pc = "errored"
    /\ readers[1].outcome = "Stream timeout"
    /\ Unexpired(1)
    /\ Len(Log(readers[1].key)) = 1
    /\ readers[1].emitted = Replay(readers[1].key)
    /\ info.key = readers[1].key
    /\ info.messageCount = 1
    /\ info.ttl = StreamTtl

(***************************************************************************)
(* C20. Successful submit effect: a startAgentJob call has answered with a  *)
(* stream key exactly when one job envelope was enqueued; the envelope      *)
(* carries the conversation id, the message, the model, the submitter's id  *)
(* and the minted job id, the returned key is the one of that job, and      *)
(* until a producer appends no key exists at the returned address.          *)
(***************************************************************************)
C20_SubmitEffect ==
    /\ (submitted.status = "ok") <=> (job.state # "none")
    /\ submitted.status = "ok" =>
          /\ DOMAIN job.data = {"conversationId", "message", "model", "userId", "jobId"}
          /\ job.data.message = "ping"
          /\ job.data.model \in SUPPORTED_MODELS
          /\ job.data.userId = ConversationOwner[job.data.conversationId]
          /\ submitted.streamKey =
                generateStreamKey(job.data.conversationId, job.data.model, job.data.jobId)
          /\ clock = 0 => ~redis[submitted.streamKey].exists

C20_Witness ==
    /\ submitted.status = "ok"
    /\ job.state = "active"
    /\ runs[1].pc = "gen"
    /\ clock = 0
    /\ ~redis[submitted.streamKey].exists

(***************************************************************************)
(* C21. Rejected submit has no effect: a startAgentJob call that is         *)
(* rejected for an unsupported model or for a conversation the caller does  *)
(* not own enqueues nothing and writes nothing: queue, store and runs are   *)
(* as they were.                                                            *)
(***************************************************************************)
C21_RejectedSubmitNoEffect ==
    [][( /\ submitted' # submitted
         /\ submitted'.status \in {"Model not supported",
                                   "You are not allowed to access this conversation"} )
       => UNCHANGED <<redis, clock, expiries, job, runs, readers>>]_vars

C21_Witness ==
    /\ submitted.status = "You are not allowed to access this conversation"
    /\ job = NoJob
    /\ \A k \in Keys : ~redis[k].exists

(***************************************************************************)
(* C22. Address agreement: the stream key startAgentJob returned for the    *)
(* enqueued envelope is the key every run of process() for that envelope    *)
(* appends to, and it is built from the envelope's conversation id, model   *)
(* and job id.                                                              *)
(***************************************************************************)
C22_AddressAgreement ==
    \A a \in Runs :
       runs[a].pc # "idle" =>
          /\ submitted.status = "ok"
          /\ runs[a].key = submitted.streamKey
          /\ runs[a].key = <<"llm", "stream", job.data.conversationId,
                             job.data.model, job.data.jobId>>

C22_Witness ==
    /\ runs[1].pc = "end"
    /\ job.state = "completed"
    /\ readers[1].pc = "completed"
    /\ readers[1].key = submitted.streamKey
    /\ Len(readers[1].emitted) = MaxFrags + 1
    /\ Len(Log(runs[1].key)) = MaxFrags + 1

(***************************************************************************)
(* C23. Bounded queue residency: the job is delivered at most once more     *)
(* than the configured number of tolerated stalls, and, the workers' steps  *)
(* being scheduled fairly, a job that is in the queue (waiting or active)   *)
(* eventually leaves it, completed or failed (removeOnComplete,             *)
(* removeOnFail).                                                           *)
(***************************************************************************)
C23_BoundedQueueResidency ==
    /\ [](job.attempts <= MaxStalledCount + 1 /\ job.stalled <= MaxStalledCount)
    /\ (job.state \in {"waiting", "active"}) ~> (job.state \in {"completed", "failed"})

C23_Witness ==
    /\ job.state = "failed"
    /\ job.stalled = MaxStalledCount
    /\ job.attempts = MaxStalledCount + 1
    /\ runs[1].pc = "crashed" /\ runs[2].pc = "crashed"

(***************************************************************************)
(* C24. Token type separation: a route protected by the guard lets a        *)
(* request through only when its token was issued with type 'access',       *)
(* whatever the two token secrets are configured to.                        *)
(***************************************************************************)
C24_TokenTypeSeparation ==
    (iam.request.roles.defined /\ iam.request.result = "true")
    => iam.request.token.payload.type = "access"

(***************************************************************************)
(* C25. Empty pre-check: a reader whose pre-check counts no records in the  *)
(* log is turned away with EMPTY, an HTTP 400, before getStream is          *)
(* subscribed and without any message; the poll loop is entered only by a   *)
(* reader whose pre-check counted at least one record.                      *)
(***************************************************************************)
C25_EmptyPreCheck ==
    [][\A r \in Readers :
          (readers[r].pc = "idle" /\ readers'[r].pc # "idle") =>
             LET after == readers'[r]
                 n == XLen(redis, after.key)
             IN /\ (n = 0 /\ after.outcome # "NOT_FOUND") =>
                      /\ after.pc = "rejected"
                      /\ after.outcome = "EMPTY"
                      /\ toHttpException(after.outcome) = 400
                      /\ after.emitted = <<>>
                      /\ ~after.isActive
                /\ after.outcome = "EMPTY" => n = 0
                /\ after.pc = "subscribed" => (n >= 1 /\ after.messageCount = n)
                /\ after.pc \in {"rejected", "subscribed"}
      ]_vars

\* a job was submitted, nothing is appended yet, and a reader of its log was
\* turned away with EMPTY without entering the poll loop
C25_Witness ==
    \E r \in Readers :
        /\ submitted.status = "ok"
        /\ readers[r].key = submitted.streamKey
        /\ readers[r].pc = "rejected"
        /\ readers[r].outcome = "EMPTY"
        /\ readers[r].messageCount = 0
        /\ readers[r].emitted = <<>>

(***************************************************************************)
(* C26. Pre-check error classification: the pre-check turns a reader away   *)
(* with NOT_FOUND or EMPTY only when the log is missing or holds no         *)
(* records; when the log holds records, a reader that is turned away (the   *)
(* store could not be reached) gets a server error, not NOT_FOUND or EMPTY. *)
(***************************************************************************)
C26_PreCheckClassification ==
    [][\A r \in Readers :
          (/\ readers[r].pc = "idle"
           /\ readers'[r].pc = "rejected"
           /\ XLen(redis, readers'[r].key) > 0) =>
             /\ readers'[r].outcome \notin {"NOT_FOUND", "EMPTY"}
             /\ toHttpException(readers'[r].outcome) = 500
      ]_vars

(***************************************************************************)
(* C27. Idle timeout: the count of empty polls goes up by one only on a     *)
(* poll that returned no records and is 0 after a poll that returned        *)
(* records; the reader stops with the stream timeout exactly when the       *)
(* count reaches maxEmptyPolls, and by then more than the max idle time     *)
(* has passed since it last received a record.                              *)
(***************************************************************************)
C27_IdleTimeout ==
    /\ [](\A r \in Readers :
            /\ readers[r].pc \in {"reading", "timer"} =>
                  readers[r].emptyPollCount < MaxEmptyPolls
            /\ readers[r].outcome = "Stream timeout" =>
                  /\ readers[r].emptyPollCount = MaxEmptyPolls
                  /\ readers[r].idleMs > MaxIdleMs)
    /\ [][\A r \in Readers :
            (readers[r].pc = "reading" /\ readers'[r] # readers[r]) =>
               LET before == readers[r]
                   after == readers'[r]
                   messages == XRead(redis, before.key, before.lastId)
               IN /\ after.emptyPollCount # before.emptyPollCount =>
                        \/ /\ messages = <<>>
                           /\ after.emptyPollCount = before.emptyPollCount + 1
                           /\ after.idleMs >= before.idleMs
                        \/ /\ messages # <<>>
                           /\ after.emptyPollCount = 0
                  /\ Len(after.emitted) > Len(before.emitted) =>
                        (after.emptyPollCount = 0 /\ after.idleMs <= POLL_INTERVAL)
                  /\ (after.emptyPollCount = MaxEmptyPolls /\ before.isActive) =>
                        (after.pc = "errored" /\ after.outcome = "Stream timeout")
       ]_vars

\* a reader that received records, then polled maxEmptyPolls times without
\* any, and stopped with the stream timeout
C27_Witness ==
    \E r \in Readers :
        /\ readers[r].pc = "errored"
        /\ readers[r].outcome = "Stream timeout"
        /\ readers[r].emptyPollCount = MaxEmptyPolls
        /\ readers[r].idleMs > MaxIdleMs
        /\ Len(readers[r].emitted) > 0

(***************************************************************************)
(* C28. Bounded transport retry: a reader that waits to poll again, whether *)
(* after an answer or after a failed read, retries only a bounded number of *)
(* times: it eventually receives records again or stops, with the error     *)
(* surfaced when the store stays unreachable.                               *)
(***************************************************************************)
C28_BoundedTransportRetry ==
    (readers[1].pc = "timer")
        ~> \/ readers[1].pc \in {"completed", "errored", "cancelled"}
           \/ (readers[1].pc = "timer" /\ readers[1].idleMs <= POLL_INTERVAL)

(***************************************************************************)
(* C29. Job run state machine: process() settles once, resolved or          *)
(* rejected; it resolves only with the completion signal appended as the    *)
(* last record of its log; and a run that has caught an error rejects with  *)
(* that same error.                                                         *)
(***************************************************************************)
C29_RunStateMachine ==
    [][\A a \in Runs :
          /\ (runs[a].pc \in {"resolved", "rejected", "end"}) =>
                runs'[a].pc \in {runs[a].pc, "end", "crashed"}
          /\ (runs[a].pc # "resolved" /\ runs'[a].pc = "resolved") =>
                /\ runs[a].pc = "gen"
                /\ runs'[a].err = ""
                /\ Log(runs[a].key)' # <<>>
                /\ LET log == Log(runs[a].key)'
                   IN SuccessTerminal(StreamMessage(log[Len(log)]))
          /\ (runs[a].pc \in {"catch", "catchExpire"} /\ runs'[a].pc = "rejected") =>
                runs'[a].err = runs[a].err
          /\ (runs[a].pc \in {"catch", "catchExpire"}) =>
                runs'[a].pc \in {runs[a].pc, "catchExpire", "rejected", "crashed"}
      ]_vars

(***************************************************************************)
(* C30. Append-only log: while a log exists and does not expire, every step *)
(* leaves it in existence with the records it held, in their order, as a    *)
(* prefix of the records it holds afterwards.                               *)
(***************************************************************************)
C30_AppendOnly ==
    [][\A k \in Keys :
          (redis[k].exists /\ expiries'[k] = expiries[k]) =>
             /\ redis'[k].exists
             /\ IsPrefix(Log(k), Log(k)')
      ]_vars

\* a log that grew record by record to all the chunks and a terminal record
C30_Witness ==
    \E k \in Keys :
        /\ redis[k].exists
        /\ Len(Log(k)) = MaxFrags + 1
        /\ Terminal(StreamMessage(Log(k)[Len(Log(k))]))
        /\ \A i \in 1..MaxFrags : ~Terminal(StreamMessage(Log(k)[i]))

(***************************************************************************)
(* C31. Stopped reader is inert: a reader that completed, timed out,        *)
(* surfaced an error, was turned away or was cancelled takes no further     *)
(* step; a reader torn down while its xlen or xread is in flight emits      *)
(* nothing more and sets no timer; and the step that stops a reader changes *)
(* nothing in the store or the queue.                                       *)
(***************************************************************************)
C31_StoppedReaderInert ==
    [][\A r \in Readers :
          /\ (readers[r].pc \in {"completed", "errored", "cancelled", "rejected"}) =>
                readers'[r] = readers[r]
          /\ (readers[r].pc \in {"subscribed", "reading"} /\ ~readers[r].isActive) =>
                /\ readers'[r].emitted = readers[r].emitted
                /\ readers'[r].pc \in {readers[r].pc, "cancelled"}
                /\ ~readers'[r].isActive
          /\ (readers[r].isActive /\ ~readers'[r].isActive) =>
                /\ readers'[r].pc # "timer"
                /\ UNCHANGED <<redis, clock, expiries, job, runs, submitted>>
      ]_vars

\* a reader that emitted a record, was torn down while its read was in
\* flight, and ended cancelled with records of its log left unread
C31_Witness ==
    \E r \in Readers :
        /\ readers[r].pc = "cancelled"
        /\ ~readers[r].isActive
        /\ Len(readers[r].emitted) >= 1
        /\ Unexpired(r)
        /\ XRead(redis, readers[r].key, readers[r].lastId) # <<>>

(***************************************************************************)
(* C32. Fragment sequence numbers: every fragment record of a log carries   *)
(* a sequence number and an emittedAt stamp set by the producer, and the    *)
(* sequence numbers increase strictly along the log.                        *)
(***************************************************************************)
C32_FragmentSequence ==
    \A k \in Keys :
        LET fragments == SelectSeq(Replay(k), LAMBDA m : ~Terminal(m))
        IN /\ \A i \in 1..Len(fragments) :
                 {"sequence", "emittedAt"} \subseteq DOMAIN fragments[i].data
           /\ \A i, j \in 1..Len(fragments) :
                 i < j => fragments[i].data.sequence < fragments[j].data.sequence

(***************************************************************************)
(* C33. Generated addresses are valid: every key that generateStreamKey     *)
(* builds from a non-negative conversation id, a supported model and a job  *)
(* id of generateJobId passes validateStreamKey, so it is never turned away *)
(* as INVALID_TYPE.                                                         *)
(***************************************************************************)
C33_GeneratedKeysValid ==
    keyreq.origin = "generated" => keyreq.verdict = "ok"

\* a key generated for a two-digit conversation id with a random part cut
\* to nine characters was validated, and accepted
C33_Witness ==
    /\ keyreq.origin = "generated"
    /\ keyreq.verdict = "ok"
    /\ Len(Split(keyreq.streamKey, ":")) = 5
    /\ Len(Split(keyreq.streamKey, ":")[3]) = 2
    /\ Len(Split(keyreq.streamKey, ":")[5]) = Len(<<"j", "o", "b", "_", "7", "_">>) + 9

(***************************************************************************)
(* Vocabulary of the session properties.                                    *)
(***************************************************************************)
\* call c takes the step that leaves program point pc
Leaves(c, pc) == auth.calls[c].pc = pc /\ auth'.calls[c].pc # pc

(***************************************************************************)
(* C34. Refresh-token rotation: once refreshTokens has stored the new       *)
(* token of a session, compareToken rejects the token that was exchanged    *)
(* for it, like every token issued earlier.                                 *)
(***************************************************************************)
C34_RotationRejectsPrevious ==
    [][\A c \in Calls :
          (Leaves(c, "setex") /\ auth.calls[c].op = "refreshTokens") =>
             ~compareToken(auth'.store, auth.calls[c].token,
                           auth.calls[c].userId, auth.calls[c].fingerprintId)
      ]_vars

(***************************************************************************)
(* C35. Single redemption of a refresh token: no refresh token is exchanged *)
(* for new tokens by refreshTokens more than once, whatever the order in    *)
(* which the steps of concurrent requests are taken.                        *)
(***************************************************************************)
C35_SingleRedemption ==
    auth.redeemedAgain = {}

(***************************************************************************)
(* C36. Sign-out-all is complete: when signOutAll answers for a user, no    *)
(* session key of that user is left, the user's set of sessions is gone,    *)
(* and every refresh token issued to the user before the call is rejected   *)
(* from every fingerprint, whatever calls of that user were in flight.      *)
(***************************************************************************)
C36_SignOutAllComplete ==
    [][\A c \in Calls :
          (/\ auth.calls[c].op = "signOutAll"
           /\ auth.calls[c].pc # "done"
           /\ auth'.calls[c].pc = "done"
           /\ auth'.calls[c].result = "ok") =>
             LET call == auth.calls[c]
             IN /\ \A f \in Fingerprints : auth'.store.sessions[call.userId, f] = NoToken
                /\ auth'.store.userSessions[call.userId] = {}
                /\ \A t \in call.issuedBefore, f \in Fingerprints :
                      ~compareToken(auth'.store, t, call.userId, f)
      ]_vars

(***************************************************************************)
(* C37. Single-session sign-out frame: the steps of signOut remove the      *)
(* session key of the calling user and fingerprint and that fingerprint     *)
(* from the user's set, and nothing else: every other session keeps its     *)
(* token, which compareToken goes on accepting, and its place in its set.   *)
(***************************************************************************)
C37_SignOutFrame ==
    [][\A c \in Calls :
          (auth.calls[c].op = "signOut" /\ (Leaves(c, "del") \/ Leaves(c, "srem"))) =>
             LET call == auth.calls[c]
             IN /\ Leaves(c, "del") =>
                      auth'.store.sessions[call.userId, call.fingerprintId] = NoToken
                /\ Leaves(c, "srem") =>
                      call.fingerprintId \notin auth'.store.userSessions[call.userId]
                /\ \A u \in UserIds, f \in Fingerprints :
                      (u # call.userId \/ f # call.fingerprintId) =>
                         /\ auth'.store.sessions[u, f] = auth.store.sessions[u, f]
                         /\ (f \in auth'.store.userSessions[u])
                               <=> (f \in auth.store.userSessions[u])
                         /\ \A t \in auth.issued :
                               compareToken(auth'.store, t, u, f)
                                  <=> compareToken(auth.store, t, u, f)
      ]_vars

\* a user signed out from one browser and is still signed in from the other
C37_Witness ==
    \E c \in Calls, f \in Fingerprints :
        LET call == auth.calls[c]
        IN /\ call.op = "signOut" /\ call.pc = "done" /\ call.result = "ok"
           /\ f # call.fingerprintId
           /\ auth.store.sessions[call.userId, call.fingerprintId] = NoToken
           /\ call.fingerprintId \notin auth.store.userSessions[call.userId]
           /\ auth.store.sessions[call.userId, f] # NoToken
           /\ f \in auth.store.userSessions[call.userId]
           /\ compareToken(auth.store, auth.store.sessions[call.userId, f],
                           call.userId, f)

(***************************************************************************)
(* C38. AuthGuard decision: a request is admitted without a verifiable      *)
(* access token only for a handler without Roles metadata, and such a       *)
(* handler admits every request; for a handler with Roles metadata the      *)
(* guard throws Unauthorized unless the request carries an access token     *)
(* that verifies, and then answers true when the role list is empty or      *)
(* holds the token's role, false otherwise.                                 *)
(***************************************************************************)
C38_AuthGuardDecision ==
    LET request == iam.request
        verifiable == /\ request.token # NoToken
                      /\ jwtVerify(request.token, iam.env.JWT_ACCESS_TOKEN_SECRET)
                      /\ request.token.payload.type = "access"
        Unauthorized == {"No token provided", "Invalid credentials"}
    IN request.result # "" =>
          /\ ~request.roles.defined => request.result = "true"
          /\ (request.result = "true" /\ ~verifiable) => ~request.roles.defined
          /\ (request.roles.defined /\ ~verifiable) => request.result \in Unauthorized
          /\ (request.roles.defined /\ verifiable) =>
                request.result =
                   IF request.roles.roles = {}
                      \/ request.token.payload.role \in request.roles.roles
                   THEN "true" ELSE "false"

====
